---- MODULE Spec2Model ----
(***************************************************************************)
(* A model of the tabular-data utility: the DataLoader of "data loader.py" *)
(* (src/unnamed/part_000) and the DataLoader / DataManager pair of         *)
(* src/data_analysis_project/main.py.  main() hands loader.data to the     *)
(* DataManager, so both classes act on one DataFrame: the variable data.   *)
(*                                                                         *)
(* A DataFrame is a record of column names, the dtype pandas inferred for  *)
(* each column, and the rows.  A cell is a record [k, v]: k = "nan" for a  *)
(* missing entry, "num" for a number (v its value) and "str" for a text    *)
(* value (v its rank in sort order: 1 is "x", 2 is "y").                   *)
(*                                                                         *)
(* Spec runs the table operations (load, clean, select) from construction, *)
(* CleanSpec runs clean from every small table just loaded, and SaveSpec   *)
(* runs save_data and save against a file system.                          *)
(***************************************************************************)
EXTENDS Integers, Sequences, FiniteSets, TLC

VARIABLES
    disk,       \* the file at self.filepath, as the read functions see it
    data,       \* self.data: None or a DataFrame
    files,      \* the destination files of save: path -> content
    dirs,       \* the directories that exist
    call,       \* the last method call and its arguments
    outcome,    \* what the last call printed last, or the exception it raised
    raised,     \* TRUE when the last call left by an exception
    ret,        \* the value the last call returned
    pre,        \* self.data when the last call began
    preFiles,   \* files when the last call began
    preDirs     \* dirs when the last call began

vars == <<disk, data, files, dirs, call, outcome, raised, ret, pre, preFiles, preDirs>>

----------------------------------------------------------------------------
(* Bounds *)

MaxRows == 2        \* rows of a csv source file (Spec)
MaxSheetRows == 1   \* rows of a spreadsheet source file (Spec)
MaxCleanRows == 4   \* rows of the loaded table (CleanSpec)
MaxFileLines == 4   \* lines a csv destination may grow to by appending (SaveSpec)

----------------------------------------------------------------------------
(* Values *)

NaN == [k |-> "nan", v |-> 0]
Num(n) == [k |-> "num", v |-> n]
Str(r) == [k |-> "str", v |-> r]

IsNa(c) == c.k = "nan"

\* the cells a "price" field and a "category" field of the source file may hold
PriceCells == {NaN, Num(10), Num(30)}
CategoryCells == {NaN, Str(1), Str(2)}

None == [isNone |-> TRUE, columns |-> <<>>, dtypes |-> <<>>, rows |-> <<>>]
DataFrame(cs, ds, rs) == [isNone |-> FALSE, columns |-> cs, dtypes |-> ds, rows |-> rs]

Range(s) == {s[i] : i \in 1..Len(s)}

\* the values of column j, in row order
ColumnOf(t, j) == [i \in 1..Len(t.rows) |-> t.rows[i][j]]

\* the position of a column name (names are unique after a load)
IndexOf(t, name) == CHOOSE j \in 1..Len(t.columns) : t.columns[j] = name

NonMissing(col) == SelectSeq(col, LAMBDA c : ~IsNa(c))

----------------------------------------------------------------------------
(* Source files *)

RowsUpTo(n) == UNION {[1..m -> PriceCells \X CategoryCells] : m \in 0..n}

\* a header row "price,category" and up to n data rows
SourceTables(n) == {[columns |-> <<"price", "category">>, rows |-> r] : r \in RowsUpTo(n)}

AbsentFile == [kind |-> "absent", columns |-> <<>>, rows |-> <<>>]
UnreadableFile == [kind |-> "unreadable", columns |-> <<>>, rows |-> <<>>]
FileOf(kind, t) == [kind |-> kind, columns |-> t.columns, rows |-> t.rows]

\* dtype inference of the pandas readers: a column without rows is object, a
\* column of numbers and empty fields is int64 (no empty field) or float64, any
\* other column is object
InferDtype(col) ==
    IF Len(col) = 0 THEN "object"
    ELSE IF \A i \in 1..Len(col) : col[i].k = "num" THEN "int64"
    ELSE IF \A i \in 1..Len(col) : col[i].k \in {"num", "nan"} THEN "float64"
    ELSE "object"

\* pd.read_csv / pd.read_excel on a file they can parse
ReadTable(f) ==
    LET raw == [columns |-> f.columns, rows |-> f.rows]
    IN  DataFrame(f.columns,
                  [j \in 1..Len(f.columns) |-> InferDtype(ColumnOf(raw, j))],
                  f.rows)

----------------------------------------------------------------------------
(* The last call *)

NoPath == [dir |-> "", name |-> <<>>]

Call(op) == [op |-> op, arg |-> "", columns |-> <<>>, path |-> NoPath,
             overwrite |-> FALSE, append |-> FALSE]

----------------------------------------------------------------------------
(* DataLoader.load (part_000) and DataLoader.load_data (main.py) *)

FileTypes == {"csv", "excel", "json"}

\* whether the pandas reader chosen by file_type returns a DataFrame for the file:
\* read_csv wants delimited text, read_excel a workbook; an absent or unreadable
\* file and an unknown file_type raise inside the try block
Readable(file_type, f) ==
    \/ file_type = "csv" /\ f.kind = "csv"
    \/ file_type = "excel" /\ f.kind = "xlsx"

\* the except branch of load and load_data
LoadFailedKeepsData(old) == old
LoadFailed(old) == None

\* self.data after load(file_type)
LoadResult(file_type, f, old) ==
    IF Readable(file_type, f) THEN ReadTable(f) ELSE LoadFailed(old)

Returned(c, msg) ==
    /\ call' = c
    /\ outcome' = msg
    /\ raised' = FALSE
    /\ pre' = data
    /\ preFiles' = files
    /\ preDirs' = dirs

Raised(c, exc) ==
    /\ call' = c
    /\ outcome' = exc
    /\ raised' = TRUE
    /\ pre' = data
    /\ preFiles' = files
    /\ preDirs' = dirs

load(file_type) ==
    /\ data' = LoadResult(file_type, disk, data)
    /\ Returned([Call("load") EXCEPT !.arg = file_type],
                IF Readable(file_type, disk) THEN "Data loaded" ELSE "Failed to load data")
    /\ ret' = None
    /\ UNCHANGED <<disk, files, dirs>>

load_data ==
    /\ data' = LoadResult("csv", disk, data)
    /\ Returned([Call("load_data") EXCEPT !.arg = "csv"],
                IF Readable("csv", disk) THEN "Data loaded successfully."
                ELSE IF disk.kind = "absent" THEN "Error: not found."
                ELSE "An error occurred")
    /\ ret' = None
    /\ UNCHANGED <<disk, files, dirs>>

\* the environment: the source file is deleted between two calls
FileRemoved ==
    /\ disk.kind # "absent"
    /\ disk' = AbsentFile
    /\ Returned(Call("unlink"), "")
    /\ ret' = None
    /\ UNCHANGED <<data, files, dirs>>

----------------------------------------------------------------------------
(* DataLoader.clean (part_000) and DataManager.clean_data (main.py) *)

Strategies == {"auto", "drop", "mean"}

NumericDtypes == {"float64", "int64"}

Min(S) == CHOOSE x \in S : \A y \in S : x <= y

\* s without its element at position i
RemoveAt(s, i) == SubSeq(s, 1, i - 1) \o SubSeq(s, i + 1, Len(s))

RECURSIVE SortInts(_)
SortInts(s) ==
    IF Len(s) = 0 THEN <<>>
    ELSE LET m == Min(Range(s))
             i == CHOOSE k \in 1..Len(s) : s[k] = m
         IN  <<m>> \o SortInts(RemoveAt(s, i))

\* Series.median(): NaN is skipped; the middle value, or the mean of the two
\* middle values; NaN when no value is left
Median(col) ==
    LET present == NonMissing(col)
        s == SortInts([i \in 1..Len(present) |-> present[i].v])
        n == Len(s)
    IN  IF n = 0 THEN NaN
        ELSE IF n % 2 = 1 THEN Num(s[(n + 1) \div 2])
        ELSE Num((s[n \div 2] + s[n \div 2 + 1]) \div 2)

Count(col, c) == Cardinality({i \in 1..Len(col) : col[i] = c})

\* the cells of S in ascending order of value
RECURSIVE SortedSeq(_)
SortedSeq(S) ==
    IF S = {} THEN <<>>
    ELSE LET c == CHOOSE x \in S : \A y \in S : x.v <= y.v
         IN  <<c>> \o SortedSeq(S \ {c})

\* the most frequent non-missing values of a column
Modes(col) ==
    LET present == NonMissing(col)
    IN  {c \in Range(present) : \A d \in Range(present) : Count(col, d) <= Count(col, c)}

\* Series.mode(): the most frequent values, NaN skipped, sorted ascending
ModeFirstSeen(col) ==
    LET present == NonMissing(col)
        first == {i \in 1..Len(present) : present[i] \in Modes(col)}
    IN  IF first = {} THEN <<>> ELSE <<present[Min(first)]>>
Mode(col) == SortedSeq(Modes(col))

\* Series.fillna(value) written back to the column
FillNaFirstOnly(t, j, value) ==
    LET col == ColumnOf(t, j)
        miss == {i \in 1..Len(col) : IsNa(col[i])}
    IN  [t EXCEPT !.rows = [i \in 1..Len(t.rows) |->
            IF miss # {} /\ i = Min(miss) THEN [t.rows[i] EXCEPT ![j] = value] ELSE t.rows[i]]]
FillNa(t, j, value) ==
    [t EXCEPT !.rows = [i \in 1..Len(t.rows) |->
        IF IsNa(t.rows[i][j]) THEN [t.rows[i] EXCEPT ![j] = value] ELSE t.rows[i]]]

\* the loop of strategy 'auto' from column j on: the table it leaves, and whether
\* mode()[0] raised on a column without any value
RECURSIVE AutoFill(_, _)
AutoFill(t, j) ==
    IF j > Len(t.columns) THEN [t |-> t, raised |-> FALSE]
    ELSE IF t.dtypes[j] \in NumericDtypes
         THEN AutoFill(FillNa(t, j, Median(ColumnOf(t, j))), j + 1)
    ELSE IF Mode(ColumnOf(t, j)) = <<>> THEN [t |-> t, raised |-> TRUE]
    ELSE AutoFill(FillNa(t, j, Mode(ColumnOf(t, j))[1]), j + 1)

HasNa(row) == \E j \in 1..Len(row) : IsNa(row[j])

\* DataFrame.dropna(inplace=True)
DropNaAllMissing(t) ==
    [t EXCEPT !.rows = SelectSeq(t.rows, LAMBDA r : \E j \in 1..Len(r) : ~IsNa(r[j]))]
DropNa(t) == [t EXCEPT !.rows = SelectSeq(t.rows, LAMBDA r : ~HasNa(r))]

\* the else branch of clean: an unknown strategy
UnknownStrategyDrops(t) == DropNa(t)
UnknownStrategy(t) == t

clean(strategy) ==
    /\ ret' = None
    /\ UNCHANGED <<disk, files, dirs>>
    /\ IF data.isNone
       THEN /\ data' = data
            /\ Returned([Call("clean") EXCEPT !.arg = strategy], "No data loaded.")
       ELSE IF strategy = "auto"
       THEN LET r == AutoFill(data, 1)
            IN  /\ data' = r.t
                /\ IF r.raised
                   THEN Raised([Call("clean") EXCEPT !.arg = strategy], "KeyError")
                   ELSE Returned([Call("clean") EXCEPT !.arg = strategy],
                                 "Missing values filled (auto strategy).")
       ELSE IF strategy = "drop"
       THEN /\ data' = DropNa(data)
            /\ Returned([Call("clean") EXCEPT !.arg = strategy],
                        "Rows with missing values dropped.")
       ELSE /\ data' = UnknownStrategy(data)
            /\ Returned([Call("clean") EXCEPT !.arg = strategy], "Unknown cleaning strategy.")

\* Series.fillna(inplace=True) on self.data[col] writes through to the frame, as
\* in the pandas the code is written for (no copy-on-write)
clean_data ==
    /\ ret' = None
    /\ UNCHANGED <<disk, files, dirs>>
    /\ IF data.isNone
       THEN /\ data' = data
            /\ Returned([Call("clean_data") EXCEPT !.arg = "auto"], "No data to clean.")
       ELSE LET r == AutoFill(data, 1)
            IN  /\ data' = r.t
                /\ IF r.raised
                   THEN Raised([Call("clean_data") EXCEPT !.arg = "auto"], "KeyError")
                   ELSE Returned([Call("clean_data") EXCEPT !.arg = "auto"],
                                 "Missing values filled.")

----------------------------------------------------------------------------
(* DataLoader.select (part_000) and DataManager.select_columns (main.py) *)

ColumnNames == {"price", "category", "z"}

\* the lists given to select: every list of at most two names
ColumnLists == {<<>>} \cup {<<a>> : a \in ColumnNames} \cup (ColumnNames \X ColumnNames)

\* self.data[columns] for a list whose names all exist: a new DataFrame
ProjectInTableOrder(t, columns) ==
    LET keep == SelectSeq([j \in 1..Len(t.columns) |-> j],
                          LAMBDA j : t.columns[j] \in Range(columns))
    IN  DataFrame([k \in 1..Len(keep) |-> t.columns[keep[k]]],
                  [k \in 1..Len(keep) |-> t.dtypes[keep[k]]],
                  [i \in 1..Len(t.rows) |-> [k \in 1..Len(keep) |-> t.rows[i][keep[k]]]])
Project(t, columns) ==
    DataFrame(columns,
              [k \in 1..Len(columns) |-> t.dtypes[IndexOf(t, columns[k])]],
              [i \in 1..Len(t.rows) |->
                  [k \in 1..Len(columns) |-> t.rows[i][IndexOf(t, columns[k])]]])

\* whether self.data[columns] raises KeyError
MissesColumn(t, columns) == \E k \in 1..Len(columns) : columns[k] \notin Range(t.columns)

\* self.data[columns]: the exception it raises ("" when none) and the value it gives
SelectLenient(t, columns) == [exc |-> "", value |-> ProjectInTableOrder(t, columns)]
SelectResult(t, columns) ==
    IF MissesColumn(t, columns) THEN [exc |-> "KeyError", value |-> None]
    ELSE [exc |-> "", value |-> Project(t, columns)]

\* the body shared by select and select_columns
Selection(op, columns, nodata) ==
    /\ data' = data
    /\ UNCHANGED <<disk, files, dirs>>
    /\ IF data.isNone
       THEN /\ ret' = None
            /\ Returned([Call(op) EXCEPT !.columns = columns], nodata)
       ELSE LET r == SelectResult(data, columns)
            IN  /\ ret' = r.value
                /\ IF r.exc # ""
                   THEN Raised([Call(op) EXCEPT !.columns = columns], r.exc)
                   ELSE Returned([Call(op) EXCEPT !.columns = columns], "")

select(columns) == Selection("select", columns, "No data loaded.")

select_columns(columns) == Selection("select_columns", columns, "No data to select from.")

----------------------------------------------------------------------------
(* DataManager.save_data (main.py) and DataLoader.save (part_000) *)

\* "" is a path without directory component (a file of the working directory),
\* "out" a directory that exists or can be created, "locked" a directory that
\* does not exist and cannot be created
Dirs == {"", "out", "locked"}

\* a file name is the sequence of its stem and extensions: save_data keeps
\* report.csv for format csv and makes report.csv.xlsx of it for format excel
OutputNames == {<<"report", ".csv">>}

OutputPaths == {[dir |-> d, name |-> n] : d \in Dirs, n \in OutputNames}

FileFormats == {"excel", "csv", "json"}

NoFile == [exists |-> FALSE, sheet |-> None, lines |-> <<>>]

HeaderLine(columns) == [hdr |-> TRUE, names |-> columns, cells |-> <<>>]
RowLine(row) == [hdr |-> FALSE, names |-> <<>>, cells |-> row]

\* DataFrame.to_csv(index=False): the header line unless header=False, then a
\* line per row
ToCsv(t, header) ==
    (IF header THEN <<HeaderLine(t.columns)>> ELSE <<>>)
        \o [i \in 1..Len(t.rows) |-> RowLine(t.rows[i])]

\* DataFrame.to_excel(index=False): one sheet with the header and the rows
ToExcel(t) == [t EXCEPT !.dtypes = <<>>]

\* lines 68-73 of save_data: the extension of the format is added unless the
\* path, lower-cased, ends with it
WithExtension(name, ext) == IF name[Len(name)] = ext THEN name ELSE Append(name, ext)

Extension(file_format) == IF file_format = "excel" THEN ".xlsx" ELSE ".csv"

\* os.makedirs(os.path.dirname(output_path), exist_ok=True): the exception it
\* raises, "" when it returns.  os.makedirs('') raises FileNotFoundError.
Makedirs(dir) ==
    IF dir = "" THEN "FileNotFoundError"
    ELSE IF dir = "locked" THEN "PermissionError"
    ELSE ""

\* os.path.exists(output_path)
Exists(path) == files[path].exists

\* line 81 and line 91 of save_data
RefusesNever(overwrite, exists) == FALSE
Refuses(overwrite, exists) == ~overwrite /\ exists

\* line 87 of save_data
Appends(append, exists) == append /\ exists

SaveCall(op, path, file_format, overwrite, append) ==
    [Call(op) EXCEPT !.arg = file_format, !.path = path, !.overwrite = overwrite,
                     !.append = append]

\* the file save_data(output_path, file_format) writes to
Destination(path, file_format) ==
    [dir |-> path.dir, name |-> WithExtension(path.name, Extension(file_format))]

\* a write of to_excel or to_csv: it replaces the file by content, or it raises
\* (permissions, disk space) and leaves the file as it was
Write(c, dest, content, done, failed, caught) ==
    \/ /\ files' = [files EXCEPT ![dest] = content]
       /\ Returned(c, done)
    \/ /\ UNCHANGED files
       /\ IF caught THEN Returned(c, failed) ELSE Raised(c, failed)

save_data(output_path, file_format, overwrite, append) ==
    LET c == SaveCall("save_data", output_path, file_format, overwrite, append)
        dest == Destination(output_path, file_format)
    IN  /\ data' = data
        /\ ret' = None
        /\ UNCHANGED disk
        /\ IF data.isNone
           THEN /\ Returned(c, "No data to save.")
                /\ UNCHANGED <<files, dirs>>
           ELSE IF file_format \notin {"excel", "csv"}
           THEN /\ Returned(c, "Unsupported file format.")
                /\ UNCHANGED <<files, dirs>>
           ELSE IF Makedirs(dest.dir) # ""
           THEN /\ Raised(c, Makedirs(dest.dir))
                /\ UNCHANGED <<files, dirs>>
           ELSE /\ dirs' = dirs \cup {dest.dir}
                /\ IF file_format = "excel"
                   THEN IF Refuses(overwrite, Exists(dest))
                        THEN /\ Returned(c, "already exists")
                             /\ UNCHANGED files
                        ELSE Write(c, dest,
                                   [exists |-> TRUE, sheet |-> ToExcel(data), lines |-> <<>>],
                                   "Data saved (Excel format)", "Failed to save data", TRUE)
                   ELSE IF Appends(append, Exists(dest))
                        THEN /\ Len(files[dest].lines) + Len(data.rows) <= MaxFileLines
                             /\ Write(c, dest,
                                      [files[dest] EXCEPT !.lines = @ \o ToCsv(data, FALSE)],
                                      "Data appended (CSV format)", "Failed to save data", TRUE)
                        ELSE IF Refuses(overwrite, Exists(dest))
                        THEN /\ Returned(c, "already exists")
                             /\ UNCHANGED files
                        ELSE Write(c, dest,
                                   [exists |-> TRUE, sheet |-> None, lines |-> ToCsv(data, TRUE)],
                                   "Data saved (CSV format)", "Failed to save data", TRUE)

\* DataLoader.save: the path is taken as given, the directory is made before the
\* file type is looked at, and nothing is caught
save(output_path, file_type) ==
    LET c == SaveCall("save", output_path, file_type, TRUE, FALSE)
    IN  /\ data' = data
        /\ ret' = None
        /\ UNCHANGED disk
        /\ IF data.isNone
           THEN /\ Returned(c, "No data to save.")
                /\ UNCHANGED <<files, dirs>>
           ELSE IF Makedirs(output_path.dir) # ""
           THEN /\ Raised(c, Makedirs(output_path.dir))
                /\ UNCHANGED <<files, dirs>>
           ELSE /\ dirs' = dirs \cup {output_path.dir}
                /\ IF file_type = "excel"
                   THEN Write(c, output_path,
                              [exists |-> TRUE, sheet |-> ToExcel(data), lines |-> <<>>],
                              "Data saved (Excel format)", "OSError", FALSE)
                   ELSE IF file_type = "csv"
                   THEN Write(c, output_path,
                              [exists |-> TRUE, sheet |-> None, lines |-> ToCsv(data, TRUE)],
                              "Data saved (CSV format)", "OSError", FALSE)
                   ELSE /\ Returned(c, "Unsupported file type.")
                        /\ UNCHANGED files

----------------------------------------------------------------------------
(* The table operations *)

Sources ==
    {AbsentFile, UnreadableFile}
        \cup {FileOf("csv", t) : t \in SourceTables(MaxRows)}
        \cup {FileOf("xlsx", t) : t \in SourceTables(MaxSheetRows)}

Init ==
    /\ disk \in Sources
    /\ data = None
    /\ files = <<>>
    /\ dirs = {}
    /\ call = Call("__init__")
    /\ outcome = ""
    /\ raised = FALSE
    /\ ret = None
    /\ pre = None
    /\ preFiles = <<>>
    /\ preDirs = {}

Next ==
    \/ \E file_type \in FileTypes : load(file_type)
    \/ load_data
    \/ FileRemoved
    \/ \E strategy \in Strategies : clean(strategy)
    \/ clean_data
    \/ \E columns \in ColumnLists : select(columns)
    \/ \E columns \in ColumnLists : select_columns(columns)

Spec == Init /\ [][Next]_vars

----------------------------------------------------------------------------
(* Cleaning, from a table just loaded from a csv file *)

InitClean ==
    /\ disk \in {FileOf("csv", t) : t \in SourceTables(MaxCleanRows)}
    /\ data = ReadTable(disk)
    /\ files = <<>>
    /\ dirs = {}
    /\ call = [Call("load") EXCEPT !.arg = "csv"]
    /\ outcome = "Data loaded"
    /\ raised = FALSE
    /\ ret = None
    /\ pre = None
    /\ preFiles = <<>>
    /\ preDirs = {}

NextClean ==
    \/ \E strategy \in Strategies : clean(strategy)
    \/ clean_data

CleanSpec == InitClean /\ [][NextClean]_vars

----------------------------------------------------------------------------
(* Saving, before or after the load of a csv file, into a file system *)

\* every file save_data or save can name
AllPaths ==
    OutputPaths \cup {Destination(p, f) : p \in OutputPaths, f \in {"excel", "csv"}}

\* the tables saved: a table of one row, and the table price [10, missing],
\* category [x, y]
SavedSources ==
    {[columns |-> <<"price", "category">>, rows |-> r] : r \in
        {<<<<Num(30), NaN>>>>,
         <<<<Num(10), Str(1)>>, <<NaN, Str(2)>>>>}}

\* what an earlier run left at a destination
OldCsv == [exists |-> TRUE, sheet |-> None,
           lines |-> <<HeaderLine(<<"price", "category">>), RowLine(<<Num(10), Str(2)>>)>>]
OldXlsx == [exists |-> TRUE,
            sheet |-> [isNone |-> FALSE, columns |-> <<"price">>, dtypes |-> <<>>,
                       rows |-> <<<<Num(10)>>>>],
            lines |-> <<>>]

\* the file system before the first save: empty, or with the files of an earlier
\* run in the working directory and in out
OldFiles ==
    [p \in AllPaths |->
        IF p.dir \in {"", "out"} /\ p.name = <<"report", ".csv">> THEN OldCsv
        ELSE IF p.dir \in {"", "out"} /\ p.name = <<"report", ".csv", ".xlsx">> THEN OldXlsx
        ELSE NoFile]

InitSave ==
    /\ disk \in {FileOf("csv", t) : t \in SavedSources}
    /\ data \in {None, ReadTable(disk)}
    /\ \/ files = [p \in AllPaths |-> NoFile] /\ dirs = {}
       \/ files = OldFiles /\ dirs = {"out"}
    /\ call = Call("__init__")
    /\ outcome = ""
    /\ raised = FALSE
    /\ ret = None
    /\ pre = data
    /\ preFiles = files
    /\ preDirs = dirs

NextSave ==
    \/ \E p \in OutputPaths, f \in FileFormats, o, a \in BOOLEAN : save_data(p, f, o, a)
    \/ \E p \in OutputPaths, f \in FileFormats : save(p, f)

SaveSpec == InitSave /\ [][NextSave]_vars

----------------------------------------------------------------------------
(* Claims about save *)

IsSaveData == call.op = "save_data" /\ call.arg \in {"excel", "csv"}

\* the destination of the last save_data call
Dest == Destination(call.path, call.arg)

\* the last call was save_data with overwrite=False on a destination that existed
NotOverwriting == IsSaveData /\ ~call.overwrite /\ preFiles[Dest].exists

RowLinesOf(t) == [i \in 1..Len(t.rows) |-> [hdr |-> FALSE, names |-> <<>>, cells |-> t.rows[i]]]

\* C7: save with format csv and append=true adds the rows after the existing
\* content, without a header row, when the destination exists, and writes the
\* header and the rows when it does not; with format spreadsheet the result
\* depends only on the overwrite flag and on whether the file exists.  (A write
\* that fails on I/O and a directory that cannot be created are left out.)
C7_AppendPolicy ==
    (IsSaveData /\ ~pre.isNone /\ outcome # "Failed to save data" /\ call.path.dir # "locked") =>
        IF call.arg = "csv" /\ call.append
        THEN /\ files[Dest].exists
             /\ files[Dest].lines =
                    IF preFiles[Dest].exists
                    THEN preFiles[Dest].lines \o RowLinesOf(pre)
                    ELSE <<[hdr |-> TRUE, names |-> pre.columns, cells |-> <<>>]>>
                            \o RowLinesOf(pre)
        ELSE call.arg = "excel" =>
                IF ~call.overwrite /\ preFiles[Dest].exists
                THEN files[Dest] = preFiles[Dest]
                ELSE files[Dest].exists /\ files[Dest].sheet.rows = pre.rows

\* C10: save never raises: it ends with the file written, or in a reported
\* error or refusal; the owned table is unchanged, and an unsupported format tag
\* or an unset table causes no write and no directory creation.
C10_SaveNeverRaises ==
    call.op \in {"save_data", "save"} =>
        /\ ~raised
        /\ data = pre
        /\ (pre.isNone \/ call.arg \notin {"excel", "csv"}) =>
                files = preFiles /\ dirs = preDirs

----------------------------------------------------------------------------
(* Claims about clean *)

IsAuto == call.op \in {"clean", "clean_data"} /\ call.arg = "auto" /\ ~pre.isNone

ColumnIndices(t) == 1..Len(t.columns)

RowIndices(t) == 1..Len(t.rows)

HasValue(t, j) == \E i \in RowIndices(t) : t.rows[i][j].k # "nan"

MissingIn(t, j) == {i \in RowIndices(t) : t.rows[i][j].k = "nan"}

\* C2: after clean with strategy 'auto', every column that had at least one
\* non-missing value before the call has no missing entry, whatever the other
\* columns hold.
C2_AutoLeavesNoMissing ==
    IsAuto => \A j \in ColumnIndices(pre) : HasValue(pre, j) => MissingIn(data, j) = {}

\* C2 witness: 'auto' has filled a column with two missing entries while the
\* other column was, and stays, entirely missing
C2_FilledBesideEmptyColumn ==
    /\ IsAuto
    /\ call.op = "clean"
    /\ \E j, e \in ColumnIndices(pre) :
          /\ HasValue(pre, j)
          /\ Cardinality(MissingIn(pre, j)) >= 2
          /\ MissingIn(data, j) = {}
          /\ ~HasValue(pre, e)
          /\ MissingIn(data, e) = RowIndices(data)
          /\ RowIndices(data) # {}

\* the rows of t without missing entry
CompleteRows(t) == {i \in RowIndices(t) : \A j \in ColumnIndices(t) : t.rows[i][j].k # "nan"}

\* the k-th smallest element of a set of numbers
Nth(S, k) == CHOOSE x \in S : Cardinality({y \in S : y <= x}) = k

\* C3: after clean with strategy 'drop', the rows are exactly the rows of the
\* table before the call that had no missing entry, in their order and with
\* their values; the row count has not grown.
C3_DropKeepsCompleteRows ==
    (call.op = "clean" /\ call.arg = "drop" /\ ~pre.isNone) =>
        /\ ~raised
        /\ Len(data.rows) <= Len(pre.rows)
        /\ Len(data.rows) = Cardinality(CompleteRows(pre))
        /\ \A k \in RowIndices(data) : data.rows[k] = pre.rows[Nth(CompleteRows(pre), k)]
        /\ data.columns = pre.columns

\* C3 witness: 'drop' has removed a row with a missing entry that lay between two
\* different complete rows, and a row with one value
C3_DroppedBetween ==
    /\ call.op = "clean" /\ call.arg = "drop" /\ ~pre.isNone
    /\ Len(data.rows) = 2
    /\ data.rows[1] # data.rows[2]
    /\ \E i \in RowIndices(pre) :
          /\ i \notin CompleteRows(pre)
          /\ \E j \in ColumnIndices(pre) : pre.rows[i][j].k # "nan"
          /\ \E a, b \in CompleteRows(pre) : a < i /\ i < b

\* the values of column j of t that are present, as a set of row indices
Present(t, j) == RowIndices(t) \ MissingIn(t, j)

\* m is the median of the present values of column j of t
IsMedian(t, j, m) ==
    LET P == Present(t, j)
        L == {i \in P : t.rows[i][j].v < m}
        G == {i \in P : t.rows[i][j].v > m}
    IN  \/ /\ 2 * Cardinality(L) < Cardinality(P)
           /\ 2 * Cardinality(G) < Cardinality(P)
        \/ /\ Cardinality(L) = Cardinality(G)
           /\ Cardinality(L) + Cardinality(G) = Cardinality(P)
           /\ \E a \in L, b \in G :
                 /\ \A i \in L : t.rows[i][j].v <= t.rows[a][j].v
                 /\ \A i \in G : t.rows[i][j].v >= t.rows[b][j].v
                 /\ 2 * m = t.rows[a][j].v + t.rows[b][j].v

Occurrences(t, j, c) == Cardinality({i \in RowIndices(t) : t.rows[i][j] = c})

\* the rows of column j of t that hold one of its most frequent values
MostFrequentRows(t, j) ==
    {i \in Present(t, j) :
        \A h \in Present(t, j) : Occurrences(t, j, t.rows[h][j]) <= Occurrences(t, j, t.rows[i][j])}

IsNumericColumn(t, j) == \E i \in RowIndices(t) : t.rows[i][j].k = "num"

IsTextColumn(t, j) == \E i \in RowIndices(t) : t.rows[i][j].k = "str"

\* what 'auto' does to the entries that are present and to the missing entries
\* of the numeric columns
AutoFillsNumbers ==
    \A j \in ColumnIndices(pre), i \in RowIndices(pre) :
        /\ i \in Present(pre, j) => data.rows[i][j] = pre.rows[i][j]
        /\ (i \in MissingIn(pre, j) /\ IsNumericColumn(pre, j)) =>
              data.rows[i][j].k = "num" /\ IsMedian(pre, j, data.rows[i][j].v)

\* C9 as stated: 'auto' replaces a missing entry of a numeric column by the
\* column's median and a missing entry of a categorical column by the column's
\* most frequent value, the tied value that occurs first in row order; present
\* entries are not changed.
C9_ModeTieFirstInRowOrder ==
    IsAuto =>
        /\ Len(data.rows) = Len(pre.rows)
        /\ AutoFillsNumbers
        /\ \A j \in ColumnIndices(pre) : \A i \in MissingIn(pre, j) :
              IsTextColumn(pre, j) =>
                  data.rows[i][j] = pre.rows[Nth(MostFrequentRows(pre, j), 1)][j]

\* C9 amended: as stated, but when several values tie for most frequent the fill
\* value is the tied value that is smallest in sort order (Series.mode() sorts).
C9_ModeTieSmallest ==
    IsAuto =>
        /\ Len(data.rows) = Len(pre.rows)
        /\ AutoFillsNumbers
        /\ \A j \in ColumnIndices(pre) : \A i \in MissingIn(pre, j) :
              IsTextColumn(pre, j) =>
                  /\ \E h \in MostFrequentRows(pre, j) : data.rows[i][j] = pre.rows[h][j]
                  /\ \A h \in MostFrequentRows(pre, j) : data.rows[i][j].v <= pre.rows[h][j].v

\* C9 witness: price [10, missing, 30] has become [10, 20, 30], and the missing
\* category after "y", "x" has become "x"
C9_MedianAndTie ==
    /\ IsAuto
    /\ call.op = "clean"
    /\ pre.rows = <<<<Num(10), Str(2)>>, <<NaN, Str(1)>>, <<Num(30), NaN>>>>
    /\ data.rows = <<<<Num(10), Str(2)>>, <<Num(20), Str(1)>>, <<Num(30), Str(1)>>>>

----------------------------------------------------------------------------
(* Claims about select, load and the unknown strategy *)

IsSelect == call.op \in {"select", "select_columns"}

AllExist(t, columns) == \A k \in 1..Len(columns) : \E j \in ColumnIndices(t) : t.columns[j] = columns[k]

PositionOf(t, name) == CHOOSE j \in ColumnIndices(t) : t.columns[j] = name

\* C4: select with names that all exist returns a table whose columns are the
\* requested names in the requested order, with the row count and the cell
\* values of the owned table, and leaves the owned table as it was.
C4_SelectProjects ==
    (IsSelect /\ ~pre.isNone /\ AllExist(pre, call.columns)) =>
        /\ ~raised
        /\ ~ret.isNone
        /\ ret.columns = call.columns
        /\ Len(ret.rows) = Len(pre.rows)
        /\ \A i \in RowIndices(pre), k \in 1..Len(call.columns) :
              /\ Len(ret.rows[i]) = Len(call.columns)
              /\ ret.rows[i][k] = pre.rows[i][PositionOf(pre, call.columns[k])]
        /\ data = pre

\* C4 witness: the two columns selected in the order opposite to the table's
C4_SelectedReversed ==
    /\ call.op = "select"
    /\ call.columns = <<"category", "price">>
    /\ pre.columns = <<"price", "category">>
    /\ Len(pre.rows) = 2
    /\ ret.rows = <<<<Str(1), Num(10)>>, <<NaN, Num(30)>>>>

\* C5: select with a name that does not exist fails with a column error (the
\* KeyError of pandas), returns nothing and leaves the owned table as it was;
\* without a table, select returns None for any list and the table stays unset.
C5_SelectUnknownColumn ==
    IsSelect =>
        /\ data = pre
        /\ pre.isNone => (~raised /\ ret = None)
        /\ (~pre.isNone /\ ~AllExist(pre, call.columns)) =>
              (raised /\ outcome = "KeyError" /\ ret = None)

\* C5 witness: a list with an existing and an unknown name, on a table with rows
C5_UnknownColumnRaised ==
    /\ call.op = "select_columns"
    /\ call.columns = <<"price", "z">>
    /\ Len(pre.rows) = 2
    /\ raised
    /\ data = pre

\* the last call was a load that cannot have read a table: the file is absent or
\* unreadable, the file type is unknown, or the file is not of that type
LoadCannotSucceed ==
    /\ call.op \in {"load", "load_data"}
    /\ \/ disk.kind \in {"absent", "unreadable"}
       \/ call.arg \notin {"csv", "excel"}
       \/ call.arg = "csv" /\ disk.kind # "csv"
       \/ call.arg = "excel" /\ disk.kind # "xlsx"

\* C6: a load that fails leaves the table unset, whatever it was before; a load
\* that succeeds replaces it by the table of the file.
C6_FailedLoadUnsets ==
    call.op \in {"load", "load_data"} =>
        /\ ~raised
        /\ IF LoadCannotSucceed
           THEN data = None
           ELSE ~data.isNone /\ data.columns = disk.columns /\ data.rows = disk.rows

\* C6 witness: a reload with an unknown file type, after a table was loaded from
\* a csv file and changed by clean
C6_FailedReloadAfterClean ==
    /\ call.op = "load"
    /\ call.arg = "json"
    /\ disk.kind = "csv"
    /\ ~pre.isNone
    /\ pre.rows # disk.rows
    /\ data = None

\* C8: clean with a strategy other than 'auto' and 'drop' does not raise and
\* leaves the table as it was, missing entries included; clean without a table
\* leaves the table unset, for any strategy.
C8_UnknownStrategyNoChange ==
    call.op = "clean" =>
        /\ call.arg \notin {"auto", "drop"} => (~raised /\ data = pre)
        /\ pre.isNone => (~raised /\ data = None)

\* C8 witness: an unknown strategy on a table with a row that has a missing entry
\* and a row that has none
C8_UnknownOnMissing ==
    /\ call.op = "clean"
    /\ call.arg = "mean"
    /\ outcome = "Unknown cleaning strategy."
    /\ Len(data.rows) = 2
    /\ Cardinality(CompleteRows(data)) = 1

====
